---- MODULE Spec2Model ----
(***************************************************************************)
(* RunData-Hub: the Metric Deriver (StravaAnalyzer._activities_to_dataframe *)
(* of RunDataHub.py and of StravaData.py) and the recent-running analysis   *)
(* of RunStats.py (window selection, weekly aggregation, trend split,       *)
(* weekly charts and tables).                                               *)
(*                                                                          *)
(* A pandas DataFrame is a record [cols, rows]: the set of its column names *)
(* and the sequence of its rows.  A float is a record [k, n, d]: k = "num"  *)
(* is the rational n/d in lowest terms, k = "inf" is +inf or -inf by the    *)
(* sign of n, k = "nan" is NaN (pandas' missing value).  A timestamp is a   *)
(* record [nat, t]: NaT, or t hours after the Monday 00:00 that starts ISO  *)
(* week 1.                                                                  *)
(***************************************************************************)
EXTENDS Integers, Sequences, FiniteSets, TLC

\* ------------------------------------------------------------------ bounds
MaxRecords == 3

\* the longest batch of training runs
MaxRuns == 5

\* the most pages the service holds, and the most load_activities is asked for
MaxPages == 3

\* ------------------------------------------------------- program constants
MetresPerKm == 1000
SecondsPerMin == 60
HoursPerDay == 24
DaysPerWeek == 7
WeeksPerYear == 52

\* ------------------------------------------------------------------ floats
RECURSIVE Gcd(_, _)
Gcd(a, b) == IF b = 0 THEN a ELSE Gcd(b, a % b)

Abs(x) == IF x < 0 THEN -x ELSE x

Sign(x) == IF x < 0 THEN -1 ELSE IF x = 0 THEN 0 ELSE 1

NaN == [k |-> "nan", n |-> 0, d |-> 1]

PosInf == [k |-> "inf", n |-> 1, d |-> 1]

NegInf == [k |-> "inf", n |-> -1, d |-> 1]

\* the rational n/d, d # 0, in lowest terms with a positive denominator
Num(n, d) ==
    LET g == Gcd(Abs(n), Abs(d))
        s == Sign(d)
    IN [k |-> "num", n |-> (s * n) \div g, d |-> Abs(d) \div g]

IsNaN(x) == x.k = "nan"

IsInf(x) == x.k = "inf"

IsNum(x) == x.k = "num"

SignedInf(s) == IF s < 0 THEN NegInf ELSE PosInf

\* IEEE-754 addition, as numpy float64 does it (rounding left out)
FAdd(x, y) ==
    IF IsNaN(x) \/ IsNaN(y) THEN NaN
    ELSE IF IsInf(x) /\ IsInf(y) THEN (IF x.n = y.n THEN x ELSE NaN)
    ELSE IF IsInf(x) THEN x
    ELSE IF IsInf(y) THEN y
    ELSE Num(x.n * (y.d \div Gcd(x.d, y.d)) + y.n * (x.d \div Gcd(x.d, y.d)),
             (x.d \div Gcd(x.d, y.d)) * y.d)

FNeg(x) == IF IsNaN(x) THEN NaN ELSE [x EXCEPT !.n = -x.n]

FSub(x, y) == FAdd(x, FNeg(y))

FMul(x, y) ==
    IF IsNaN(x) \/ IsNaN(y) THEN NaN
    ELSE IF IsInf(x) \/ IsInf(y)
         THEN (IF x.n = 0 \/ y.n = 0 THEN NaN ELSE SignedInf(Sign(x.n) * Sign(y.n)))
    ELSE Num(x.n * y.n, x.d * y.d)

\* IEEE-754 division: x/0 is +-inf for x # 0 and NaN for x = 0, no exception
FDiv(x, y) ==
    IF IsNaN(x) \/ IsNaN(y) THEN NaN
    ELSE IF IsInf(x) THEN (IF IsInf(y) THEN NaN ELSE SignedInf(x.n * (IF y.n < 0 THEN -1 ELSE 1)))
    ELSE IF IsInf(y) THEN Num(0, 1)
    ELSE IF y.n = 0 THEN (IF x.n = 0 THEN NaN ELSE SignedInf(x.n))
    ELSE Num(x.n * y.d, x.d * y.n)

\* x < y on floats; every comparison with NaN is false
FLess(x, y) ==
    IF IsNaN(x) \/ IsNaN(y) THEN FALSE
    ELSE IF IsInf(x) THEN x.n < 0 /\ ~(IsInf(y) /\ y.n < 0)
    ELSE IF IsInf(y) THEN y.n > 0
    ELSE x.n * y.d < y.n * x.d

FInt(i) == Num(i, 1)

\* x <= y on floats; every comparison with NaN is false
FLessEq(x, y) == FLess(x, y) \/ (~IsNaN(x) /\ x = y)

\* ------------------------------------------------------ sequences of floats
RECURSIVE FSumSeq(_)
FSumSeq(s) == IF s = <<>> THEN FInt(0) ELSE FAdd(Head(s), FSumSeq(Tail(s)))

RECURSIVE DropNaN(_)
DropNaN(s) ==
    IF s = <<>> THEN <<>>
    ELSE IF IsNaN(Head(s)) THEN DropNaN(Tail(s))
    ELSE <<Head(s)>> \o DropNaN(Tail(s))

\* Series.sum(): skipna = True, the sum of nothing is 0
SeriesSum(s) == FSumSeq(DropNaN(s))

\* Series.mean(): skipna = True, the mean of nothing is NaN; an inf is not skipped
MeanOfValues(v) == IF v = <<>> THEN NaN ELSE FDiv(FSumSeq(v), FInt(Len(v)))

SeriesMean(s) == MeanOfValues(DropNaN(s))

\* ------------------------------------------------------------- raw records
\* an optional JSON key: present with value v, or absent
Some(v) == [has |-> TRUE, v |-> v]

Absent == [has |-> FALSE, v |-> 0]

\* a start_date string: an ISO-8601 text of the hour t, or text that does not parse
IsoText(t) == [ok |-> TRUE, t |-> t]

BadText == [ok |-> FALSE, t |-> 0]

\* the start_date key absent
AbsentDate == [has |-> FALSE, v |-> BadText]

Hour(day, h) == day * HoursPerDay + h

Raw(id, sd, dist, mt, et, teg, ty, sp) ==
    [id |-> id, start_date |-> sd, distance |-> dist, moving_time |-> mt,
     elapsed_time |-> et, total_elevation_gain |-> teg, type |-> ty, sport_type |-> sp]

\* a well-formed run at the hour t over dist metres
Run(t, dist) == Raw(Some(1), Some(IsoText(t)), dist, 1500, 1800, Some(100), "Run", "Run")

\* the raw records a batch is drawn from.  The runs start on the Sunday of week 8,
\* the Monday of week 9 and the Monday of week 10, exactly one week later
RawRecords ==
    {Run(Hour(55, 0), 5000), Run(Hour(56, 0), 5000), Run(Hour(63, 0), 10000)}
    \* zero distance, with and without time on the clock
    \cup {Raw(Some(1), Some(IsoText(Hour(63, 0))), 0, 1500, 1800, Some(100), "Run", "Run"),
          Raw(Some(1), Some(IsoText(Hour(56, 0))), 0, 0, 0, Some(0), "Run", "Run")}
    \* optional and required keys absent, a start_date that does not parse
    \cup {Raw(Some(1), Some(IsoText(Hour(56, 0))), 5000, 1500, 1800, Absent, "Run", "Run"),
          Raw(Absent, Some(IsoText(Hour(63, 0))), 5000, 1500, 1800, Some(100), "Run", "Run"),
          Raw(Some(1), AbsentDate, 5000, 1500, 1800, Some(100), "Run", "Run"),
          Raw(Some(1), Some(BadText), 5000, 1500, 1800, Some(100), "Run", "Run")}
    \* another category: a trail run (type Run, sport_type TrailRun), Wednesday noon of
    \* week 9, at a pace of 5:59.8 min/km
    \cup {Raw(Some(1), Some(IsoText(Hour(58, 12))), 5000, 1799, 1800, Some(100), "Run", "TrailRun")}

RECURSIVE SeqsUpTo(_, _)
SeqsUpTo(S, n) ==
    IF n = 0 THEN {<<>>}
    ELSE LET shorter == SeqsUpTo(S, n - 1)
         IN shorter \cup {Append(s, x) : s \in {q \in shorter : Len(q) = n - 1}, x \in S}

Batches == SeqsUpTo(RawRecords, MaxRecords)

\* -------------------------------------------------------------- DataFrames
NaT == [nat |-> TRUE, t |-> 0]

Ts(t) == [nat |-> FALSE, t |-> t]

\* the value None, and a DataFrame of the named columns and the rows
NoneFrame == [isnone |-> TRUE, cols |-> {}, rows |-> <<>>]

Frame(cols, rows) == [isnone |-> FALSE, cols |-> cols, rows |-> rows]

\* pd.DataFrame(): no columns, no rows
EmptyFrame == Frame({}, <<>>)

IsEmpty(f) == f.rows = <<>>

\* pd.to_datetime(x, errors='coerce'): a missing or unparsable text becomes NaT
ToDatetimeCoerce(x) == IF x.has /\ x.v.ok THEN Ts(x.v.t) ELSE NaT

AnyHas(acts, Key(_)) == \E i \in 1..Len(acts) : Key(acts[i]).has

KeyId(a) == a.id

KeyStartDate(a) == a.start_date

KeyElevation(a) == a.total_elevation_gain

\* a json_normalize cell: the value of the key, NaN where the record lacks it
Cell(x) == IF x.has THEN FInt(x.v) ELSE NaN

\* the week_label of a row before the analysis adds the column
NoLabel == <<>>

\* one row of RunDataHub's frame; index is the row's label in df.index
HubRow(a, i) ==
    [index |-> i,
     id |-> Cell(a.id),
     start_date |-> ToDatetimeCoerce(a.start_date),
     type |-> a.type,
     sport_type |-> a.sport_type,
     distance_km |-> FDiv(FInt(a.distance), FInt(MetresPerKm)),
     elapsed_time_min |-> FDiv(FInt(a.elapsed_time), FInt(SecondsPerMin)),
     moving_time_min |-> FDiv(FInt(a.moving_time), FInt(SecondsPerMin)),
     efficiency_ratio |-> FDiv(FInt(a.moving_time), FInt(a.elapsed_time)),
     pace_min_per_km_elapsed |->
         FDiv(FDiv(FInt(a.elapsed_time), FInt(SecondsPerMin)),
              FDiv(FInt(a.distance), FInt(MetresPerKm))),
     pace_min_per_km_moving |->
         FDiv(FDiv(FInt(a.moving_time), FInt(SecondsPerMin)),
              FDiv(FInt(a.distance), FInt(MetresPerKm))),
     elevation_gain_km |-> FDiv(Cell(a.total_elevation_gain), FInt(MetresPerKm)),
     elevation_gain_m |-> NaN,
     week_number |-> 0,
     week_label |-> NoLabel]

HubBaseCols ==
    {"start_date", "type", "sport_type", "distance", "elapsed_time", "moving_time",
     "distance_km", "elapsed_time_min", "moving_time_min", "efficiency_ratio",
     "pace_min_per_km_elapsed", "pace_min_per_km_moving"}

HubCols(acts) ==
    HubBaseCols
    \cup (IF AnyHas(acts, KeyId) THEN {"id"} ELSE {})
    \cup (IF AnyHas(acts, KeyElevation) THEN {"total_elevation_gain", "elevation_gain_km"} ELSE {})

\* the outcome of a call: the exception it raised ("none": it returned) and its value
Outcome(exc, val) == [raised |-> exc, value |-> val]

\* RunDataHub.StravaAnalyzer._activities_to_dataframe
ActivitiesToDataframe(acts) ==
    IF acts = <<>> THEN Outcome("none", EmptyFrame)
    ELSE IF ~AnyHas(acts, KeyStartDate) THEN Outcome("KeyError", NoneFrame)
    ELSE Outcome("none", Frame(HubCols(acts), [i \in 1..Len(acts) |-> HubRow(acts[i], i - 1)]))

\* StravaData.StravaAnalyzer._activities_to_dataframe: one dict per activity, the
\* required keys read with activity[...], the pace key set only when distance_km > 0
LegacyRow(a, i) ==
    [index |-> i,
     id |-> a.id.v,
     type |-> a.type,
     distance_km |-> FDiv(FInt(a.distance), FInt(MetresPerKm)),
     moving_time_min |-> FDiv(FInt(a.moving_time), FInt(SecondsPerMin)),
     elevation_gain |-> a.total_elevation_gain.v,
     start_date |-> Ts(a.start_date.v.t),
     pace_min_per_km |->
         IF FLess(FInt(0), FDiv(FInt(a.distance), FInt(MetresPerKm)))
         THEN FDiv(FDiv(FInt(a.moving_time), FInt(SecondsPerMin)),
                   FDiv(FInt(a.distance), FInt(MetresPerKm)))
         ELSE NaN]

\* the exception building the dict of activity a raises, "none" when it is built
LegacyRowError(a) ==
    IF ~a.id.has THEN "KeyError"
    ELSE IF ~a.total_elevation_gain.has THEN "KeyError"
    ELSE IF ~a.start_date.has THEN "KeyError"
    ELSE IF ~a.start_date.v.ok THEN "ValueError"
    ELSE "none"

LegacyActivitiesToDataframe(acts) ==
    IF acts = <<>> THEN Outcome("none", <<>>)
    ELSE IF \E i \in 1..Len(acts) : LegacyRowError(acts[i]) # "none"
    THEN LET first == CHOOSE i \in 1..Len(acts) :
                         /\ LegacyRowError(acts[i]) # "none"
                         /\ \A j \in 1..(i - 1) : LegacyRowError(acts[j]) = "none"
         IN Outcome(LegacyRowError(acts[first]), <<>>)
    ELSE Outcome("none", [i \in 1..Len(acts) |-> LegacyRow(acts[i], i - 1)])

\* ------------------------------------------------------- report formatting
\* int(x) of a finite float: truncation toward zero
Trunc(x) == Sign(x.n) * (Abs(x.n) \div x.d)

FAbs(x) == IF IsNaN(x) THEN NaN ELSE [x EXCEPT !.n = Abs(x.n)]

NAText == [na |-> TRUE, minutes |-> 0, seconds |-> 0]

\* the text "{minutes}:{seconds:02d}"
PaceText(m, sec) == [na |-> FALSE, minutes |-> m, seconds |-> sec]

\* format_pace_min_sec raises OverflowError on an infinite pace: int(inf)
FormatRaises(pace_decimal) == IsInf(pace_decimal)

\* format_pace_min_sec with the seconds rounded to the nearest whole second
FormatPaceMinSec_Rounded(pace_decimal) ==
    IF IsNaN(pace_decimal) THEN NAText
    ELSE LET minutes == Trunc(pace_decimal)
             seconds == Trunc(FAdd(FMul(FSub(pace_decimal, FInt(minutes)),
                                        FInt(SecondsPerMin)),
                                   Num(1, 2)))
         IN PaceText(minutes, seconds)

\* format_pace_min_sec on a pace it does not raise on
FormatPaceMinSec(pace_decimal) ==
    IF IsNaN(pace_decimal) THEN NAText
    ELSE LET minutes == Trunc(pace_decimal)
             seconds == Trunc(FMul(FSub(pace_decimal, FInt(minutes)), FInt(SecondsPerMin)))
         IN PaceText(minutes, seconds)

\* convert_elevation_km_to_m
ConvertElevationKmToM(elevation_km) ==
    IF IsNaN(elevation_km) THEN FInt(0) ELSE FMul(elevation_km, FInt(MetresPerKm))

\* ---------------------------------------------------------------- calendar
\* Timestamp.isocalendar().week of the hour t, in ISO years of 52 weeks
IsoWeek(t) == (((t \div HoursPerDay) \div DaysPerWeek) % WeeksPerYear) + 1

\* str(n) as character codes, n >= 0
RECURSIVE Digits(_)
Digits(n) == IF n < 10 THEN <<48 + n>> ELSE Digits(n \div 10) \o <<48 + (n % 10)>>

\* 'Week ' + str(week_number)
WeekLabel(week) == <<87, 101, 101, 107, 32>> \o Digits(week)

\* a < b on Python strings: lexicographic by character code
RECURSIVE StrLess(_, _)
StrLess(a, b) ==
    IF b = <<>> THEN FALSE
    ELSE IF a = <<>> THEN TRUE
    ELSE IF Head(a) # Head(b) THEN Head(a) < Head(b)
    ELSE StrLess(Tail(a), Tail(b))

IntLess(a, b) == a < b

\* the elements of the set S in ascending order of the strict total order Less
Sorted(S, Less(_, _)) ==
    [i \in 1..Cardinality(S) |->
        CHOOSE x \in S : Cardinality({y \in S : Less(y, x)}) = i - 1]

\* ------------------------------------------------------------ column access
Col(rows, F(_)) == [i \in 1..Len(rows) |-> F(rows[i])]

PaceMoving(r) == r.pace_min_per_km_moving

DistanceKm(r) == r.distance_km

ElevationM(r) == r.elevation_gain_m

RowIndex(r) == r.index

WeekNumberOf(r) == r.week_number

WeekLabelOf(r) == r.week_label

\* ---------------------------------------------------------- window selector
\* df['start_date'].max(): NaT is skipped, NaT when nothing is left
MaxStartDate(rows) ==
    LET ts == {rows[i].start_date.t : i \in {j \in 1..Len(rows) : ~rows[j].start_date.nat}}
    IN IF ts = {} THEN NaT ELSE Ts(CHOOSE t \in ts : \A u \in ts : u <= t)

\* timedelta(weeks=weeks), in hours
WeeksDelta(weeks) == weeks * DaysPerWeek * HoursPerDay

CutoffDate(rows, weeks) ==
    LET latest == MaxStartDate(rows)
    IN IF latest.nat THEN NaT ELSE Ts(latest.t - WeeksDelta(weeks))

\* start_date >= cutoff_date: false when either side is NaT
NotBefore(start_date, cutoff_date) ==
    ~start_date.nat /\ ~cutoff_date.nat /\ start_date.t >= cutoff_date.t

\* the boolean mask of the selection
InWindow(r, sport_type_filter, cutoff_date) ==
    r.sport_type = sport_type_filter /\ NotBefore(r.start_date, cutoff_date)

\* df[mask].copy(): the rows of the mask, in the order df holds them
RecentRuns(rows, sport_type_filter, weeks) ==
    LET cutoff_date == CutoffDate(rows, weeks)
        Keep(r) == InWindow(r, sport_type_filter, cutoff_date)
    IN SelectSeq(rows, Keep)

\* the three columns the analysis adds to its copy
WithAnalysisColumns(rows) ==
    [i \in 1..Len(rows) |->
        [rows[i] EXCEPT !.elevation_gain_m = ConvertElevationKmToM(rows[i].elevation_gain_km),
                        !.week_number = IsoWeek(rows[i].start_date.t),
                        !.week_label = WeekLabel(IsoWeek(rows[i].start_date.t))]]

AnalysisCols == {"elevation_gain_m", "week_number", "week_label"}

\* --------------------------------------------------------- weekly aggregator
\* the groups of the keys, in the order of keys, each holding its rows in frame order
GroupsOf(rows, Key(_), keys) ==
    [g \in 1..Len(keys) |->
        LET Member(r) == Key(r) = keys[g]
        IN [key |-> keys[g], rows |-> SelectSeq(rows, Member)]]

\* DataFrame.groupby(key): one group per distinct key, the keys in sorted order
GroupBy(rows, Key(_), Less(_, _)) ==
    GroupsOf(rows, Key, Sorted({Key(rows[i]) : i \in 1..Len(rows)}, Less))

\* week_data['distance_km'].mean()
MeanDistanceKm(week_data) == SeriesMean(Col(week_data, DistanceKm))

\* a week's distance taken as the mean of its runs, the aggregate of the next column
\* of the table (line 219) in the place of the sum
TotalDistanceKm_AsMean(week_data) == SeriesMean(Col(week_data, DistanceKm))

\* week_data['distance_km'].sum()
TotalDistanceKm(week_data) == SeriesSum(Col(week_data, DistanceKm))

\* week_data['pace_min_per_km_moving'].mean()
AvgPace(week_data) == SeriesMean(Col(week_data, PaceMoving))

\* the text of a pace in a line that is printed only when formatting does not raise
PaceTextOrNA(pace) == IF FormatRaises(pace) THEN NAText ELSE FormatPaceMinSec(pace)

WeeklyLineOf(group, avg_pace) ==
    [week |-> group.key,
     members |-> Col(group.rows, RowIndex),
     runs |-> Len(group.rows),
     total_km |-> TotalDistanceKm(group.rows),
     avg_km |-> MeanDistanceKm(group.rows),
     avg_pace |-> avg_pace,
     avg_pace_text |-> PaceTextOrNA(avg_pace),
     elevation |-> SeriesSum(Col(group.rows, ElevationM))]

\* what one pass of a weekly loop computes and prints
WeeklyLine(group) == WeeklyLineOf(group, AvgPace(group.rows))

WeeklyLines(groups) == [g \in 1..Len(groups) |-> WeeklyLine(groups[g])]

LoopRaises(lines) == \E g \in 1..Len(lines) : FormatRaises(lines[g].avg_pace)

\* the passes of a weekly loop that end before format_pace_min_sec raises
PrintedLines(lines) ==
    IF ~LoopRaises(lines) THEN lines
    ELSE SubSeq(lines, 1, (CHOOSE g \in 1..Len(lines) :
                              /\ FormatRaises(lines[g].avg_pace)
                              /\ \A h \in 1..(g - 1) : ~FormatRaises(lines[h].avg_pace)) - 1)

\* ------------------------------------------------------------ trend analyzer
\* the first half cut at the ceiling of N/2, so that it overlaps the second on odd N
FirstHalf_Ceiling(recent_runs) == SubSeq(recent_runs, 1, (Len(recent_runs) + 1) \div 2)

\* recent_runs.iloc[:len(recent_runs)//2]
FirstHalf(recent_runs) == SubSeq(recent_runs, 1, Len(recent_runs) \div 2)

\* recent_runs.iloc[len(recent_runs)//2:]
SecondHalf(recent_runs) == SubSeq(recent_runs, (Len(recent_runs) \div 2) + 1, Len(recent_runs))

PaceTrend(first_half, second_half) ==
    FSub(SeriesMean(Col(second_half, PaceMoving)), SeriesMean(Col(first_half, PaceMoving)))

DistanceTrend(first_half, second_half) ==
    FSub(SeriesMean(Col(second_half, DistanceKm)), SeriesMean(Col(first_half, DistanceKm)))

ElevationTrend(first_half, second_half) ==
    FSub(SeriesMean(Col(second_half, ElevationM)), SeriesMean(Col(first_half, ElevationM)))

\* line 73
TrendDirection(pace_trend) == IF FLess(pace_trend, FInt(0)) THEN "improving" ELSE "slowing"

\* sort_values('start_date'): ascending, rows of one start_date in frame order
EarlierRow(r1, r2) ==
    \/ r1.start_date.t < r2.start_date.t
    \/ r1.start_date.t = r2.start_date.t /\ r1.index < r2.index

\* ------------------------------------------- analyze_recent_running_insights
\* A call is the record of its locals and output; each stage below takes the call
\* as the stages before left it and passes a call that raised on unchanged.

\* the locals and the output of a call before its first statement, its parameters
\* at their defaults (line 26)
BlankAnalysis ==
    [sport_type_filter |-> "Run", weeks |-> 3,
     raised |-> "none", value |-> NoneFrame, reached |-> "entry", nodata |-> FALSE,
     recent_runs |-> <<>>, weekly |-> <<>>, trend_shown |-> FALSE, trend_report |-> <<>>,
     first_half |-> <<>>, second_half |-> <<>>,
     pace_trend |-> NaN, distance_trend |-> NaN, elevation_trend |-> NaN,
     trend_direction |-> "none", current_avg_pace |-> NAText, fastest |-> NAText,
     slowest |-> NAText, median |-> NAText,
     day_gaps |-> <<>>, avg_days_between |-> NaN, consistency |-> "none",
     avg_weekly_distance |-> NaN, avg_runs_per_week |-> NaN, avg_weekly_elevation |-> NaN,
     pace_variance |-> NaN,
     recommendations |-> <<>>]

\* lines 52-62: the weekly loop over groupby('week_number')
WeeklyPrinted(call, lines) ==
    [call EXCEPT !.reached = "weekly",
                 !.weekly = PrintedLines(lines),
                 !.raised = IF LoopRaises(lines) THEN "OverflowError" ELSE "none"]

WeeklySummary(call) ==
    WeeklyPrinted(call, WeeklyLines(GroupBy(call.recent_runs, WeekNumberOf, IntLess)))

\* lines 64, 74-76: the lines of the trend section, its heading first
\* lines 64-76: the trend of the two halves, for two runs or more
TrendPrinted(call) ==
    IF FormatRaises(FAbs(call.pace_trend))
    THEN [call EXCEPT !.raised = "OverflowError", !.trend_report = <<"RECENT TRENDS:">>]
    ELSE call

TrendOfHalves(call, first_half, second_half) ==
    TrendPrinted([call EXCEPT !.reached = "trend", !.trend_shown = TRUE,
                              !.trend_report = <<"RECENT TRENDS:", "Pace trend", "Distance trend",
                                                 "Elevation trend">>,
                              !.first_half = first_half, !.second_half = second_half,
                              !.pace_trend = PaceTrend(first_half, second_half),
                              !.distance_trend = DistanceTrend(first_half, second_half),
                              !.elevation_trend = ElevationTrend(first_half, second_half),
                              !.trend_direction =
                                  TrendDirection(PaceTrend(first_half, second_half))])

RecentTrends(call) ==
    IF call.raised # "none" THEN call
    ELSE IF Len(call.recent_runs) >= 2
    THEN TrendOfHalves(call, FirstHalf(call.recent_runs), SecondHalf(call.recent_runs))
    ELSE [call EXCEPT !.reached = "trend", !.trend_report = <<"RECENT TRENDS:">>]

\* lines 78-87: the fitness snapshot
SnapshotPrinted(call, current_avg_pace) ==
    IF FormatRaises(current_avg_pace)
    THEN [call EXCEPT !.reached = "snapshot", !.raised = "OverflowError"]
    ELSE [call EXCEPT !.reached = "snapshot",
                      !.current_avg_pace = FormatPaceMinSec(current_avg_pace)]

FitnessSnapshot(call) ==
    IF call.raised # "none" THEN call ELSE SnapshotPrinted(call, AvgPace(call.recent_runs))

\* idxmin() of a column with no value: NaN and then KeyError in .loc, or ValueError,
\* by the pandas release
IdxminAllNAErrors == {"KeyError", "ValueError"}

\* the exceptions a call can let escape where the model names one
Escapes(exc) == IF exc = "IdxminAllNA" THEN IdxminAllNAErrors ELSE {exc}

Escaped(exc, e) == IF exc = "IdxminAllNA" THEN e ELSE exc

AllPaceMissing(recent_runs) == \A i \in 1..Len(recent_runs) : IsNaN(PaceMoving(recent_runs[i]))

\* recent_runs.loc[recent_runs[col].idxmin()]: the first row of the least pace
FastestRun(recent_runs) ==
    recent_runs[CHOOSE i \in 1..Len(recent_runs) :
        /\ ~IsNaN(PaceMoving(recent_runs[i]))
        /\ \A j \in 1..Len(recent_runs) :
              /\ ~FLess(PaceMoving(recent_runs[j]), PaceMoving(recent_runs[i]))
              /\ (j < i /\ ~IsNaN(PaceMoving(recent_runs[j])))
                     => FLess(PaceMoving(recent_runs[i]), PaceMoving(recent_runs[j]))]

\* lines 89-97: the best performances
BestPrinted(call, best_pace) ==
    IF FormatRaises(best_pace) THEN [call EXCEPT !.reached = "best", !.raised = "OverflowError"]
    ELSE [call EXCEPT !.reached = "best", !.fastest = FormatPaceMinSec(best_pace)]

BestPerformances(call) ==
    IF call.raised # "none" THEN call
    ELSE IF AllPaceMissing(call.recent_runs)
    THEN [call EXCEPT !.reached = "best", !.raised = "IdxminAllNA"]
    ELSE BestPrinted(call, PaceMoving(FastestRun(call.recent_runs)))

\* lines 99-103: the pace distribution. A call that gets here has a pace that is a
\* number in its window and no infinite one (lines 84 and 91 raised otherwise), so
\* describe() yields numbers and format_pace_min_sec does not raise.
PaceRanked(recent_runs) ==
    LET timed == {i \in 1..Len(recent_runs) : IsNum(PaceMoving(recent_runs[i]))}
        Before(i, j) == \/ FLess(PaceMoving(recent_runs[i]), PaceMoving(recent_runs[j]))
                        \/ PaceMoving(recent_runs[i]) = PaceMoving(recent_runs[j]) /\ i < j
    IN Col(Sorted(timed, Before), LAMBDA i : PaceMoving(recent_runs[i]))

\* describe()['50%']: the middle value, or the mean of the two middle values
MedianOf(ranked) ==
    FDiv(FAdd(ranked[(Len(ranked) + 1) \div 2], ranked[(Len(ranked) + 2) \div 2]), FInt(2))

PaceDistributionOf(call, ranked) ==
    [call EXCEPT !.reached = "distribution",
                 !.slowest = FormatPaceMinSec(ranked[Len(ranked)]),
                 !.median = FormatPaceMinSec(MedianOf(ranked))]

PaceDistribution(call) ==
    IF call.raised # "none" THEN call
    ELSE PaceDistributionOf(call, PaceRanked(call.recent_runs))

\* recent_runs['start_date'].sort_values(): the start dates in ascending order
SortedStartDates(recent_runs) ==
    LET Earlier(i, j) == EarlierRow(recent_runs[i], recent_runs[j])
    IN Col(Sorted(1..Len(recent_runs), Earlier), LAMBDA i : recent_runs[i].start_date.t)

\* Timedelta.days of a gap that is not negative: its whole days, the hours dropped
WholeDays(hours) == hours \div HoursPerDay

\* .diff().dt.days.dropna(): the whole days from each date to the next
DaysBetweenRuns(dates) ==
    [i \in 1..(Len(dates) - 1) |-> FInt(WholeDays(dates[i + 1] - dates[i]))]

\* line 113: the mean of the gaps, 0 when there is none
AvgDaysBetween(days_between_runs) ==
    IF days_between_runs = <<>> THEN FInt(0) ELSE MeanOfValues(days_between_runs)

\* lines 118-123
ConsistencyVerdict(avg_days_between) ==
    IF FLessEq(avg_days_between, FInt(2)) THEN "excellent"
    ELSE IF FLessEq(avg_days_between, FInt(4)) THEN "good"
    ELSE "more frequently"

ConsistencyOf(call, days_between_runs) ==
    [call EXCEPT !.reached = "consistency",
                 !.day_gaps = days_between_runs,
                 !.avg_days_between = AvgDaysBetween(days_between_runs),
                 !.consistency = ConsistencyVerdict(AvgDaysBetween(days_between_runs))]

\* lines 111-123: the consistency of the window
RecentConsistency(call) ==
    IF call.raised # "none" THEN call
    ELSE ConsistencyOf(call, DaysBetweenRuns(SortedStartDates(call.recent_runs)))

\* the three tests of lines 130-135 taken one by one, each printing its line
DistanceAdvice_Independent(avg_weekly_distance) ==
    (IF FLess(avg_weekly_distance, FInt(20)) THEN <<"increase gradually">> ELSE <<>>)
    \o (IF FLess(avg_weekly_distance, FInt(40)) THEN <<"add speed work">> ELSE <<>>)
    \o (IF ~FLess(avg_weekly_distance, FInt(40)) THEN <<"ensure recovery">> ELSE <<>>)

\* lines 130-135: the lines printed on the weekly distance
DistanceAdvice(avg_weekly_distance) ==
    IF FLess(avg_weekly_distance, FInt(20)) THEN <<"increase gradually">>
    ELSE IF FLess(avg_weekly_distance, FInt(40)) THEN <<"add speed work">>
    ELSE <<"ensure recovery">>

\* the tests of lines 137-142 with the bounds included in the lower band
RunsAdvice_Inclusive(avg_runs_per_week) ==
    IF FLessEq(avg_runs_per_week, FInt(3)) THEN <<"aim for 3-4 runs">>
    ELSE IF FLessEq(avg_runs_per_week, FInt(5)) THEN <<"maintain frequency">>
    ELSE <<"cross-training or rest">>

\* lines 137-142: the lines printed on the runs per week
RunsAdvice(avg_runs_per_week) ==
    IF FLess(avg_runs_per_week, FInt(3)) THEN <<"aim for 3-4 runs">>
    ELSE IF FLess(avg_runs_per_week, FInt(5)) THEN <<"maintain frequency">>
    ELSE <<"cross-training or rest">>

\* lines 144-147: the lines printed on the weekly elevation, none from 500 to 1500
ElevationAdvice(avg_weekly_elevation) ==
    IF FLess(avg_weekly_elevation, FInt(500)) THEN <<"add hill work">>
    ELSE IF FLess(FInt(1500), avg_weekly_elevation) THEN <<"good hill training">>
    ELSE <<>>

SquaredDeviations(values, mean) ==
    [i \in 1..Len(values) |-> FMul(FSub(values[i], mean), FSub(values[i], mean))]

\* Series.var(): skipna, ddof = 1; NaN for fewer than two values
SeriesVar(s) ==
    IF Len(DropNaN(s)) < 2 THEN NaN
    ELSE FDiv(FSumSeq(SquaredDeviations(DropNaN(s), SeriesMean(s))), FInt(Len(DropNaN(s)) - 1))

\* lines 149-153: pace_std < 0.5, taken on the variance, the square of pace_std:
\* std < 1/2 exactly when var < 1/4; a NaN compares false
PaceAdvice(pace_variance) ==
    IF FLess(pace_variance, Num(1, 4)) THEN <<"add pace variety">> ELSE <<"good pace variety">>

RecommendationsOf(call, avg_weekly_distance, avg_runs_per_week, avg_weekly_elevation, pace_variance) ==
    [call EXCEPT !.reached = "recommendations",
                 !.avg_weekly_distance = avg_weekly_distance,
                 !.avg_runs_per_week = avg_runs_per_week,
                 !.avg_weekly_elevation = avg_weekly_elevation,
                 !.pace_variance = pace_variance,
                 !.recommendations = DistanceAdvice(avg_weekly_distance)
                                         \o RunsAdvice(avg_runs_per_week)
                                         \o ElevationAdvice(avg_weekly_elevation)
                                         \o PaceAdvice(pace_variance)]

\* lines 125-153: the recommendations for next week
Recommendations(call) ==
    IF call.raised # "none" THEN call
    ELSE RecommendationsOf(call,
             FDiv(SeriesSum(Col(call.recent_runs, DistanceKm)), FInt(call.weeks)),
             FDiv(FInt(Len(call.recent_runs)), FInt(call.weeks)),
             FDiv(SeriesSum(Col(call.recent_runs, ElevationM)), FInt(call.weeks)),
             SeriesVar(Col(call.recent_runs, PaceMoving)))

\* line 155: return recent_runs
ReturnRecentRuns(call, cols) ==
    IF call.raised # "none" THEN call
    ELSE [call EXCEPT !.reached = "done",
                      !.value = Frame(cols \cup AnalysisCols, call.recent_runs)]

\* lines 37-155, the window selected
AnalyzeWindow(call, df, window) ==
    IF window = <<>> THEN [call EXCEPT !.nodata = TRUE, !.reached = "return"]
    ELSE IF "elevation_gain_km" \notin df.cols
    THEN [call EXCEPT !.raised = "KeyError", !.reached = "elevation", !.recent_runs = window]
    ELSE ReturnRecentRuns(
             Recommendations(RecentConsistency(PaceDistribution(
                 BestPerformances(FitnessSnapshot(RecentTrends(WeeklySummary(
                     [call EXCEPT !.recent_runs = WithAnalysisColumns(window)]))))))),
             df.cols)

\* lines 32-35: None and a frame without the columns raise; else the window
AnalyzeCall(call, df) ==
    IF df.isnone THEN [call EXCEPT !.raised = "TypeError"]
    ELSE IF "start_date" \notin df.cols \/ "sport_type" \notin df.cols
    THEN [call EXCEPT !.raised = "KeyError"]
    ELSE AnalyzeWindow(call, df, RecentRuns(df.rows, call.sport_type_filter, call.weeks))

AnalyzeRecentRunningInsights(df, sport_type_filter, weeks) ==
    AnalyzeCall([BlankAnalysis EXCEPT !.sport_type_filter = sport_type_filter,
                                      !.weeks = weeks], df)

\* -------------------------------------- create_recent_running_visualizations
BlankCharts ==
    [raised |-> "none", called |-> FALSE, nodata |-> FALSE,
     weekly_totals |-> <<>>, weekly_elevation |-> <<>>, table |-> <<>>]

\* the bars of one chart: one per group of week_label, with the sum of the column
WeeklyBars(groups, Val(_)) ==
    [g \in 1..Len(groups) |->
        [label |-> groups[g].key, total |-> SeriesSum(Col(groups[g].rows, Val))]]

\* lines 213-223: the weekly summary table
TablePrinted(call, lines) ==
    [call EXCEPT !.table = PrintedLines(lines),
                 !.raised = IF LoopRaises(lines) THEN "OverflowError" ELSE "none"]

\* lines 164-223, over the groups of groupby('week_label')
ChartsOfGroups(groups) ==
    TablePrinted([BlankCharts EXCEPT !.called = TRUE,
                                     !.weekly_totals = WeeklyBars(groups, DistanceKm),
                                     !.weekly_elevation = WeeklyBars(groups, ElevationM)],
                 WeeklyLines(groups))

CreateRecentRunningVisualizations(recent_runs) ==
    IF recent_runs.isnone
    THEN [BlankCharts EXCEPT !.called = TRUE, !.raised = "AttributeError"]
    ELSE IF IsEmpty(recent_runs) THEN [BlankCharts EXCEPT !.called = TRUE, !.nodata = TRUE]
    ELSE IF "week_label" \notin recent_runs.cols
    THEN [BlankCharts EXCEPT !.called = TRUE, !.raised = "KeyError"]
    ELSE ChartsOfGroups(GroupBy(recent_runs.rows, WeekLabelOf, StrLess))

\* --------------------------------------------------- show_recent_run_details
BlankDetails == [raised |-> "none", called |-> FALSE, lines |-> <<>>]

DetailLine(run) ==
    [index |-> run.index, start_date |-> run.start_date, distance |-> run.distance_km,
     avg_pace |-> PaceMoving(run), pace |-> PaceTextOrNA(PaceMoving(run)),
     elevation |-> run.elevation_gain_m]

DetailLines(ordered) == [i \in 1..Len(ordered) |-> DetailLine(ordered[i])]

DetailsPrinted(lines) ==
    [raised |-> IF LoopRaises(lines) THEN "OverflowError" ELSE "none",
     called |-> TRUE, lines |-> PrintedLines(lines)]

ShowRecentRunDetails(recent_runs) ==
    IF recent_runs.isnone THEN [BlankDetails EXCEPT !.called = TRUE, !.raised = "AttributeError"]
    ELSE IF IsEmpty(recent_runs) THEN [BlankDetails EXCEPT !.called = TRUE]
    ELSE DetailsPrinted(DetailLines(
             Sorted({recent_runs.rows[i] : i \in 1..Len(recent_runs.rows)}, EarlierRow)))

\* -------------------------------------------------- complete_recent_analysis
CompleteEnds(exc, recent_data, drawn, shown) ==
    [raised |-> exc, analysis |-> recent_data, charts |-> drawn, details |-> shown]

CompleteShown(recent_data, drawn, shown) ==
    CompleteEnds(shown.raised, recent_data, drawn, shown)

CompleteDrawn(recent_data, drawn) ==
    IF drawn.raised # "none" THEN CompleteEnds(drawn.raised, recent_data, drawn, BlankDetails)
    ELSE CompleteShown(recent_data, drawn, ShowRecentRunDetails(recent_data.value))

\* lines 250-253: the charts and the details when the analysis returned a frame
\* that is not empty
CompleteAnalyzed(recent_data) ==
    IF recent_data.raised # "none" \/ recent_data.value.isnone \/ IsEmpty(recent_data.value)
    THEN CompleteEnds(recent_data.raised, recent_data, BlankCharts, BlankDetails)
    ELSE CompleteDrawn(recent_data, CreateRecentRunningVisualizations(recent_data.value))

\* line 249: the analysis, called with the default category 'Run'
CompleteRecentAnalysis(df, weeks) ==
    CompleteAnalyzed(AnalyzeRecentRunningInsights(df, "Run", weeks))

\* ------------------------------------------------------------ the service
\* An activity the service lists: its summary, and what the request for its detail
\* answers (None when the request fails).
Listed(summary, detail) == [summary |-> summary, detail |-> detail]

DetailOk(activity) == [none |-> FALSE, v |-> activity]

DetailFails(activity) == [none |-> TRUE, v |-> activity]

\* what the request for one page answers: the activities listed, or an error
PageOf(items) == [ok |-> TRUE, items |-> items]

PageError == [ok |-> FALSE, items |-> <<>>]

\* _get_activities_page: the list of the page (empty past the last page), None on
\* a status that is not 200 and on a failed request
GetActivitiesPage(service, page) ==
    IF page > Len(service) THEN [none |-> FALSE, items |-> <<>>]
    ELSE IF ~service[page].ok THEN [none |-> TRUE, items |-> <<>>]
    ELSE [none |-> FALSE, items |-> service[page].items]

PageRequest(page) == [kind |-> "page", n |-> page]

DetailRequest(id) == [kind |-> "detail", n |-> id]

\* the locals of load_activities and the requests it has sent
BlankLoad == [all_activities |-> <<>>, requested |-> <<>>, raised |-> "none"]

\* one pass of that loop if a failed detail request ended the load
DetailFetched_Abort(load, item) ==
    IF ~item.summary.id.has THEN [load EXCEPT !.raised = "KeyError"]
    ELSE IF item.detail.none
    THEN [load EXCEPT !.requested = Append(@, DetailRequest(item.summary.id.v)),
                      !.raised = "RequestException"]
    ELSE [load EXCEPT !.requested = Append(@, DetailRequest(item.summary.id.v)),
                      !.all_activities = Append(@, item.detail.v)]

\* lines 55-57: one pass of the loop over the activities of a page
DetailFetched(load, item) ==
    IF ~item.summary.id.has THEN [load EXCEPT !.raised = "KeyError"]
    ELSE [load EXCEPT !.requested = Append(@, DetailRequest(item.summary.id.v)),
                      !.all_activities = IF item.detail.none THEN @
                                         ELSE Append(@, item.detail.v)]

RECURSIVE FetchDetails(_, _)
\* lines 54-58: the loop over the activities of a page
FetchDetails(items, load) ==
    IF items = <<>> \/ load.raised # "none" THEN load
    ELSE FetchDetails(Tail(items), DetailFetched(load, Head(items)))

\* lines 53-60: what a page that lists activities adds
PageFetched(load, items, detailed) ==
    IF detailed THEN FetchDetails(items, load)
    ELSE [load EXCEPT !.all_activities = @ \o Col(items, LAMBDA item : item.summary)]

\* the test of the loop taken as if no page ended it: an empty or failed page is
\* skipped and the next one requested
StopsAt_Never(answer) == FALSE

\* lines 51, 61-63: 'if activities:' is false on None and on the empty list, and
\* the loop ends (break)
StopsAt(answer) == answer.none \/ answer.items = <<>>

Asked(load, page) == [load EXCEPT !.requested = Append(@, PageRequest(page))]

RECURSIVE FetchPages(_, _, _, _, _)
\* lines 48-63: for page in range(1, pages + 1)
FetchPages(service, page, pages, detailed, load) ==
    IF page > pages \/ load.raised # "none" THEN load
    ELSE IF StopsAt(GetActivitiesPage(service, page)) THEN Asked(load, page)
    ELSE FetchPages(service, page + 1, pages, detailed,
                    PageFetched(Asked(load, page),
                                GetActivitiesPage(service, page).items, detailed))

\* ------------------------------------------------------------ state machine
VARIABLES
    remote,          \* the service: what each page and each detail request answers
    load_args,       \* the arguments load_activities is called with
    requested,       \* the requests load_activities has sent, in order
    all_activities,  \* load_activities: the raw records collected
    activities_df,   \* StravaAnalyzer.activities_df
    df,              \* the value load_activities returned
    legacy,          \* the outcome of StravaData's _activities_to_dataframe
    pc,              \* the call that ended last
    raised,          \* the exception that call let escape, "none" when it returned
    analysis,        \* locals and output of analyze_recent_running_insights
    charts,          \* output of create_recent_running_visualizations
    details          \* output of show_recent_run_details

vars == <<remote, load_args, requested, all_activities, activities_df, df, legacy, pc, raised,
          analysis, charts, details>>

\* the arguments the analysis is called with
Categories == {"Run", "TrailRun"}

WeekCounts == {1, 2}

\* a service that lists the batch on one page, each detail request answering the
\* record itself
OnePage(batch) ==
    IF batch = <<>> THEN <<>>
    ELSE <<PageOf([i \in 1..Len(batch) |-> Listed(batch[i], DetailOk(batch[i]))])>>

\* the state after StravaAnalyzer(): nothing loaded, nothing analysed
Constructed ==
    /\ requested = <<>>
    /\ all_activities = <<>>
    /\ activities_df = NoneFrame
    /\ df = NoneFrame
    /\ legacy = Outcome("none", <<>>)
    /\ pc = "start"
    /\ raised = "none"
    /\ analysis = BlankAnalysis
    /\ charts = BlankCharts
    /\ details = BlankDetails

\* the arguments of load_activities at their defaults but for detailed
SummariesOnly == [pages |-> 3, detailed |-> FALSE]

Init ==
    /\ remote \in {OnePage(batch) : batch \in Batches}
    /\ load_args = SummariesOnly
    /\ Constructed

\* a well-formed run of 10 km in the week of days 56 to 62
Training(t, moving_time, elevation) ==
    Raw(Some(1), Some(IsoText(t)), 10000, moving_time, moving_time + 300, Some(elevation),
        "Run", "Run")

\* paces 5:00, 5:59.9 and 6:00 min/km; starts 2.5, 1.5 and 4 days apart
TrainingRuns ==
    {Training(Hour(56, 0), 3000, 100),
     Training(Hour(58, 12), 3599, 100),
     Training(Hour(60, 0), 3600, 1500)}

\* the sessions over batches of training runs
InitRuns ==
    /\ remote \in {OnePage(batch) : batch \in SeqsUpTo(TrainingRuns, MaxRuns)}
    /\ load_args = SummariesOnly
    /\ Constructed

\* a summary as a page lists it, and the detail of the same activity
Summary(id, t) == Raw(id, Some(IsoText(t)), 5000, 1500, 1800, Absent, "Run", "Run")

Detail(id, t) == Raw(id, Some(IsoText(t)), 5000, 1500, 1800, Some(100), "Run", "Run")

Fetchable(id, t) == Listed(Summary(Some(id), t), DetailOk(Detail(Some(id), t)))

Unfetchable(id, t) == Listed(Summary(Some(id), t), DetailFails(Summary(Some(id), t)))

\* a listed activity without the key id
Unidentified(t) == Listed(Summary(Absent, t), DetailOk(Detail(Absent, t)))

PageAnswers ==
    {PageError,
     PageOf(<<>>),
     PageOf(<<Fetchable(1, Hour(56, 0)), Unfetchable(2, Hour(57, 0)), Fetchable(3, Hour(58, 0))>>),
     PageOf(<<Unfetchable(4, Hour(59, 0))>>),
     PageOf(<<Unidentified(Hour(60, 0))>>)}

\* the sessions over services of several pages, of which some fail
InitLoad ==
    /\ remote \in SeqsUpTo(PageAnswers, MaxPages)
    /\ load_args \in {[pages |-> n, detailed |-> d] : n \in 1..MaxPages, d \in BOOLEAN}
    /\ Constructed

\* lines 65-72: the frame is kept, and returned unless it is empty
Loaded(built) ==
    /\ raised' = built.raised
    /\ activities_df' = IF built.raised = "none" THEN built.value ELSE NoneFrame
    /\ df' = IF built.raised = "none" /\ ~IsEmpty(built.value) THEN built.value ELSE NoneFrame

\* lines 47-72: the pages fetched, then the frame built unless a fetch raised
Fetched(load) ==
    /\ requested' = load.requested
    /\ all_activities' = load.all_activities
    /\ IF load.raised # "none"
       THEN raised' = load.raised /\ activities_df' = NoneFrame /\ df' = NoneFrame
       ELSE Loaded(ActivitiesToDataframe(load.all_activities))

\* RunDataHub load_activities; without a connection it returns None (lines 39-42)
LoadActivities ==
    /\ pc = "start"
    /\ \E connected \in BOOLEAN :
          IF connected
          THEN Fetched(FetchPages(remote, 1, load_args.pages, load_args.detailed, BlankLoad))
          ELSE /\ raised' = "none" /\ activities_df' = NoneFrame /\ df' = NoneFrame
               /\ UNCHANGED <<requested, all_activities>>
    /\ pc' = "loaded"
    /\ UNCHANGED <<remote, load_args, legacy, analysis, charts, details>>

\* the pages StravaData's load_activities collects (lines 49-58): summaries only
LegacyFetched(load) ==
    /\ requested' = load.requested
    /\ all_activities' = load.all_activities
    /\ legacy' = LegacyActivitiesToDataframe(load.all_activities)

\* StravaData load_activities, lines 49-67
LoadLegacy ==
    /\ pc = "start"
    /\ LegacyFetched(FetchPages(remote, 1, load_args.pages, FALSE, BlankLoad))
    /\ raised' = legacy'.raised
    /\ pc' = "legacy"
    /\ UNCHANGED <<remote, load_args, activities_df, df, analysis, charts, details>>

\* a caller passes the frame load_activities returned or the analyzer's attribute
Datasets == {df, activities_df}

\* pd.to_datetime of a value that is a timestamp already: the value itself
ToDatetime(start_date) == IF start_date.nat THEN NaT ELSE Ts(start_date.t)

\* the caller's frame with the window's columns on it: the window taken as a view
\* of df, without .copy()
CallerFrameAfter_NoCopy(frame) ==
    IF frame.isnone \/ "start_date" \notin frame.cols THEN frame
    ELSE Frame(frame.cols \cup AnalysisCols, WithAnalysisColumns(frame.rows))

\* line 32 assigns the column start_date of the frame the caller passed; the
\* other statements work on the copy of line 35
CallerFrameAfter(frame) ==
    IF frame.isnone \/ "start_date" \notin frame.cols THEN frame
    ELSE Frame(frame.cols,
               [i \in 1..Len(frame.rows) |->
                   [frame.rows[i] EXCEPT !.start_date = ToDatetime(@)]])

\* the frame passed is the object both names hold, when both hold the same frame
Passed(d) ==
    /\ df' = IF d = df THEN CallerFrameAfter(df) ELSE df
    /\ activities_df' = IF d = activities_df THEN CallerFrameAfter(activities_df)
                        ELSE activities_df

AnalyzeEnds(call) ==
    \E e \in Escapes(call.raised) : analysis' = [call EXCEPT !.raised = e] /\ raised' = e

Analyze ==
    /\ pc = "loaded"
    /\ raised = "none"
    /\ \E d \in Datasets, c \in Categories, w \in WeekCounts :
          AnalyzeEnds(AnalyzeRecentRunningInsights(d, c, w)) /\ Passed(d)
    /\ pc' = "analyzed"
    /\ UNCHANGED <<remote, load_args, requested, all_activities, legacy, charts, details>>

Visualize ==
    /\ pc = "analyzed"
    /\ raised = "none"
    /\ charts' = CreateRecentRunningVisualizations(analysis.value)
    /\ raised' = charts'.raised
    /\ pc' = "visualized"
    /\ UNCHANGED <<remote, load_args, requested, all_activities, activities_df, df, legacy,
                   analysis, details>>

ShowDetails ==
    /\ pc = "analyzed"
    /\ raised = "none"
    /\ details' = ShowRecentRunDetails(analysis.value)
    /\ raised' = details'.raised
    /\ pc' = "detailed"
    /\ UNCHANGED <<remote, load_args, requested, all_activities, activities_df, df, legacy,
                   analysis, charts>>

CompleteEnded(done) ==
    \E e \in Escapes(done.raised) :
        /\ analysis' = [done.analysis EXCEPT !.raised = Escaped(@, e)]
        /\ charts' = done.charts
        /\ details' = done.details
        /\ raised' = e

Complete ==
    /\ pc = "loaded"
    /\ raised = "none"
    /\ \E d \in Datasets, w \in WeekCounts :
          CompleteEnded(CompleteRecentAnalysis(d, w)) /\ Passed(d)
    /\ pc' = "completed"
    /\ UNCHANGED <<remote, load_args, requested, all_activities, legacy>>

Next ==
    \/ LoadActivities
    \/ LoadLegacy
    \/ Analyze
    \/ Visualize
    \/ ShowDetails
    \/ Complete

Spec == Init /\ [][Next]_vars

SpecRuns == InitRuns /\ [][Next]_vars

SpecLoad == InitLoad /\ [][Next]_vars

\* ==================================================================== claims
\* the exception-free calls and the states the claims speak of
Zero == FInt(0)

\* a value that is no float at all: an explicit "unavailable" marker
IsUnavailable(x) == ~IsNum(x) /\ ~IsInf(x) /\ ~IsNaN(x)

\* the Metric Deriver ran: the frame load_activities built
Derived == pc = "loaded" /\ ~activities_df.isnone

\* an analysis call ended (alone, or inside complete_recent_analysis)
AnalysisEnded == pc \in {"analyzed", "visualized", "detailed", "completed"}

\* the analysis selected a window that is not empty and added its columns
WindowAnalysed == AnalysisEnded /\ analysis.reached \notin {"entry", "return", "elevation"}

\* the weekly loop of the analysis ran to its end
WeeklyLoopEnded == AnalysisEnded /\ analysis.reached \in {"trend", "snapshot", "best", "done"}

\* the charts and the weekly table were produced
ChartsDrawn == charts.called /\ charts.raised = "none" /\ ~charts.nodata

IndexSet(rows) == {rows[i].index : i \in 1..Len(rows)}

\* ---------------------------------------------------------------------- C1
\* C1: for every Raw Record the Metric Deriver stores an explicit "unavailable"
\* value, never inf, NaN or an error, in pace_min_per_km_elapsed and
\* pace_min_per_km_moving when distance is 0, and in efficiency_ratio when
\* elapsed_time is 0.
C1_ZeroDenominatorIsUnavailable ==
    Derived =>
        \A i \in 1..Len(activities_df.rows) :
            LET r == activities_df.rows[i]
            IN /\ r.distance_km = Zero =>
                     /\ IsUnavailable(r.pace_min_per_km_elapsed)
                     /\ IsUnavailable(r.pace_min_per_km_moving)
               /\ r.elapsed_time_min = Zero => IsUnavailable(r.efficiency_ratio)

\* ---------------------------------------------------------------------- C2
\* the paces of the rows whose pace is available (a number)
AvailablePaces(rows) ==
    LET Timed(r) == IsNum(PaceMoving(r))
    IN Col(SelectSeq(rows, Timed), PaceMoving)

RowsOfWeek(rows, week) ==
    LET InWeek(r) == r.week_number = week
    IN SelectSeq(rows, InWeek)

\* C2: every weekly mean pace, and the overall mean, that the analysis reports is
\* the mean over the records whose pace is available only, so that a zero-distance
\* record in the window changes no pace mean, and the report completes without
\* raising.
C2_PaceMeansSkipUnavailable ==
    WindowAnalysed =>
        /\ analysis.raised = "none"
        /\ \A g \in 1..Len(analysis.weekly) :
               analysis.weekly[g].avg_pace =
                   MeanOfValues(AvailablePaces(RowsOfWeek(analysis.recent_runs,
                                                          analysis.weekly[g].week)))
        /\ analysis.current_avg_pace =
               FormatPaceMinSec(MeanOfValues(AvailablePaces(analysis.recent_runs)))

\* ---------------------------------------------------------------------- C3
WellFormed(a) == a.id.has /\ a.start_date.has /\ a.start_date.v.ok

Unindexed(rows) == [i \in 1..Len(rows) |-> [rows[i] EXCEPT !.index = 0]]

EnrichedEach(acts) == [i \in 1..Len(acts) |-> HubRow(acts[i], 0)]

\* C3: a record of the batch that lacks id or start_date, or whose start_date does
\* not parse, is left out of the Enriched Dataset, every other record of the batch
\* is enriched, and the batch does not abort.
C3_MalformedRecordsAreExcluded ==
    pc \in {"loaded", "legacy"} =>
        /\ raised = "none"
        /\ Derived =>
               Unindexed(activities_df.rows) = EnrichedEach(SelectSeq(all_activities, WellFormed))

\* ---------------------------------------------------------------------- C4
\* a batch of well-formed records of positive distance, total_elevation_gain absent
\* from some or from all of them
OnlyElevationAbsent(acts) ==
    /\ \A i \in 1..Len(acts) : WellFormed(acts[i]) /\ acts[i].distance > 0
    /\ \E i \in 1..Len(acts) : ~acts[i].total_elevation_gain.has

\* C4: for a batch in which total_elevation_gain is absent from some or from all
\* records, enrichment followed by the analysis raises no exception and each such
\* record has elevation_gain_m = 0.
C4_AbsentElevationIsZero ==
    (pc \in {"analyzed", "completed"} /\ ~df.isnone /\ OnlyElevationAbsent(all_activities)) =>
        /\ raised = "none"
        /\ \A i \in 1..Len(analysis.recent_runs) :
               IsNaN(analysis.recent_runs[i].elevation_gain_km) =>
                   analysis.recent_runs[i].elevation_gain_m = Zero

\* ---------------------------------------------------------------------- C5
\* the rows of the full dataset that match category on type or sport_type and start
\* no earlier than the latest start_date of the dataset less weeks, the bound included
ClaimedWindow(rows, category, weeks) ==
    {rows[i].index : i \in {j \in 1..Len(rows) :
        /\ rows[j].type = category \/ rows[j].sport_type = category
        /\ ~rows[j].start_date.nat
        /\ \E k \in 1..Len(rows) :
              /\ ~rows[k].start_date.nat
              /\ \A l \in 1..Len(rows) :
                    rows[l].start_date.nat \/ rows[l].start_date.t <= rows[k].start_date.t
              /\ rows[j].start_date.t >= rows[k].start_date.t - WeeksDelta(weeks)}}

Chronological(rows) ==
    \A i, j \in 1..Len(rows) : i < j => rows[i].start_date.t <= rows[j].start_date.t

\* C5: the window the analysis selects holds exactly the records that match the
\* category on type or sport_type and start no earlier than the latest start_date
\* of the full dataset less W weeks, the bound included, in chronological order.
C5_WindowIsTrailingCategorySlice ==
    (pc = "analyzed" /\ ~df.isnone) =>
        /\ IndexSet(analysis.recent_runs) =
               ClaimedWindow(df.rows, analysis.sport_type_filter, analysis.weeks)
        /\ Cardinality(IndexSet(analysis.recent_runs)) = Len(analysis.recent_runs)
        /\ Chronological(analysis.recent_runs)

\* ---------------------------------------------------------------------- C6
\* the window is empty: no record selected, or no dataset to select from
EmptyWindowCase == AnalysisEnded /\ analysis.reached \in {"entry", "return"}

\* C6: when the selected window is empty (no record of the category in the range,
\* or the dataset itself empty or not loaded), every stage ends with a "no data"
\* outcome and none raises.
C6_EmptyWindowIsNoData ==
    EmptyWindowCase =>
        /\ raised = "none"
        /\ analysis.raised = "none"
        /\ analysis.nodata
        /\ charts.called => charts.nodata

\* ---------------------------------------------------------------------- C7
LineTotalKm(line) == line.total_km

BarTotal(bar) == bar.total

\* the groups of the lines partition the rows and their totals add up to the rows'
Conserved(lines, rows) ==
    /\ FSumSeq(Col(lines, LineTotalKm)) = SeriesSum(Col(rows, DistanceKm))
    /\ \A i \in 1..Len(rows) :
           Cardinality({g \in 1..Len(lines) :
               \E m \in 1..Len(lines[g].members) : lines[g].members[m] = rows[i].index}) = 1

\* C7: in every weekly aggregate (the weekly summary of the analysis, the weekly
\* bars and the weekly table of the charts) the per-week totals of distance_km add
\* up to the sum of distance_km over the window, and every record of the window is
\* in exactly one weekly group.
C7_WeeklyDistanceIsConserved ==
    /\ WeeklyLoopEnded => Conserved(analysis.weekly, analysis.recent_runs)
    /\ ChartsDrawn =>
           /\ Conserved(charts.table, analysis.value.rows)
           /\ FSumSeq(Col(charts.weekly_totals, BarTotal)) =
                  SeriesSum(Col(analysis.value.rows, DistanceKm))

\* a window of two weeks, one of them with two runs, summarised and charted
C7_Witness ==
    /\ pc = "visualized"
    /\ ChartsDrawn
    /\ Len(analysis.weekly) >= 2
    /\ Len(charts.table) >= 2
    /\ \E g \in 1..Len(analysis.weekly) : analysis.weekly[g].runs >= 2

\* ---------------------------------------------------------------------- C8
\* the week number a label 'Week n' names
WeekOfLabel(label) == CHOOSE n \in 1..(WeeksPerYear + 1) : WeekLabel(n) = label

\* C8: in every weekly report (the weekly summary of the analysis, the weekly bars
\* and the weekly table of the charts) the week groups come in ascending numeric
\* order of week number, also across one-digit and two-digit week numbers.
C8_WeeksAscendInEveryReport ==
    /\ \A g, h \in 1..Len(analysis.weekly) :
           g < h => analysis.weekly[g].week < analysis.weekly[h].week
    /\ \A g, h \in 1..Len(charts.table) :
           g < h => WeekOfLabel(charts.table[g].week) < WeekOfLabel(charts.table[h].week)
    /\ \A g, h \in 1..Len(charts.weekly_totals) :
           g < h => WeekOfLabel(charts.weekly_totals[g].label)
                        < WeekOfLabel(charts.weekly_totals[h].label)

\* ---------------------------------------------------------------------- C9
\* C9: for every window of N >= 2 records the trend is computed on a first half of
\* exactly floor(N/2) records and a second half of the remaining N - floor(N/2);
\* the halves are disjoint and together are the window.
C9_TrendSplitsAtFloorOfHalf ==
    (WeeklyLoopEnded /\ Len(analysis.recent_runs) >= 2) =>
        /\ analysis.trend_shown
        /\ Len(analysis.first_half) = Len(analysis.recent_runs) \div 2
        /\ Len(analysis.second_half) =
               Len(analysis.recent_runs) - (Len(analysis.recent_runs) \div 2)
        /\ IndexSet(analysis.first_half) \cap IndexSet(analysis.second_half) = {}
        /\ analysis.first_half \o analysis.second_half = analysis.recent_runs

\* a window of three records, split into one and two
C9_Witness ==
    /\ analysis.trend_shown
    /\ Len(analysis.recent_runs) = 3
    /\ Len(analysis.first_half) = 1
    /\ Len(analysis.second_half) = 2

\* --------------------------------------------------------------------- C10
\* C10: whatever the order the records are supplied in, every record of the
\* trend's first half starts no later than every record of its second half.
C10_FirstHalfIsTheEarlierHalf ==
    analysis.trend_shown =>
        \A i \in 1..Len(analysis.first_half), j \in 1..Len(analysis.second_half) :
            analysis.first_half[i].start_date.t <= analysis.second_half[j].start_date.t

\* --------------------------------------------------------------------- C11
\* the analysis went past its trend section
TrendSectionEnded ==
    AnalysisEnded /\ analysis.reached \in {"trend", "snapshot", "best", "distribution",
                                           "consistency", "recommendations", "done"}

Printed(lines, text) == \E i \in 1..Len(lines) : lines[i] = text

\* C11: for every non-empty window of fewer than 2 records the trend section of the
\* report states 'insufficient data', reports no trend value and nothing raises.
C11_SingleRunIsInsufficientData ==
    (TrendSectionEnded /\ Len(analysis.recent_runs) = 1) =>
        /\ Printed(analysis.trend_report, "insufficient data")
        /\ ~Printed(analysis.trend_report, "Pace trend")
        /\ ~analysis.trend_shown
        /\ analysis.raised = "none"

\* --------------------------------------------------------------------- C12
\* the pace delta: the mean pace of the second half less that of the first
HalvesDelta ==
    FSub(SeriesMean(Col(analysis.second_half, PaceMoving)),
         SeriesMean(Col(analysis.first_half, PaceMoving)))

\* C12: for every window of N >= 2 records the trend is labelled
\* 'improving' exactly when the pace delta is negative and 'slowing' exactly when it
\* is positive.
C12_SlowingOnlyWhenPositive ==
    analysis.trend_shown =>
        /\ analysis.trend_direction = "improving" <=> FLess(HalvesDelta, Zero)
        /\ analysis.trend_direction = "slowing" <=> FLess(Zero, HalvesDelta)

\* --------------------------------------------------------------------- C13
\* the analysis ran to its end: the recommendations were printed
Recommended == AnalysisEnded /\ analysis.reached = "done" /\ analysis.raised = "none"

\* total / weeks < bound, for a total that is a number, without dividing
Under(total, weeks, bound) == total.n < bound * weeks * total.d

Over(total, weeks, bound) == total.n > bound * weeks * total.d

Exactly(total, weeks, bound) == total.n = bound * weeks * total.d

WindowKm == SeriesSum(Col(analysis.recent_runs, DistanceKm))

WindowElevation == SeriesSum(Col(analysis.recent_runs, ElevationM))

WindowRuns == FInt(Len(analysis.recent_runs))

\* the paces of the window that are numbers
WindowPaces == AvailablePaces(analysis.recent_runs)

\* the sum of (x[i] - x[j])^2 over the pairs i < j: n (n - 1) times the sample variance
PairSquares(x) ==
    FSumSeq([k \in 1..(Len(x) * Len(x)) |->
        LET i == ((k - 1) \div Len(x)) + 1
            j == ((k - 1) % Len(x)) + 1
        IN IF i < j THEN FMul(FSub(x[i], x[j]), FSub(x[i], x[j])) ELSE Zero])

\* the standard deviation of the paces against 1/2: its square against 1/4
DeviationUnderHalf(x) ==
    Len(x) >= 2 /\ FLess(FMul(FInt(4), PairSquares(x)), FInt(Len(x) * (Len(x) - 1)))

DeviationIsHalf(x) ==
    Len(x) >= 2 /\ FMul(FInt(4), PairSquares(x)) = FInt(Len(x) * (Len(x) - 1))

DistanceTexts == {"increase gradually", "add speed work", "ensure recovery"}

RunsTexts == {"aim for 3-4 runs", "maintain frequency", "cross-training or rest"}

ElevationTexts == {"add hill work", "good hill training"}

PaceTexts == {"add pace variety", "good pace variety"}

\* the lines of one category, in the order printed
LinesAmong(lines, texts) == SelectSeq(lines, LAMBDA l : l \in texts)

\* C13: for every non-empty window whose recommendations are printed, each category
\* has the line of its first matching band and no other: one weekly-distance line
\* (<20, <40, else), one run-count line (<3, <5, else), one pace-variety line (<0.5,
\* else), and for weekly elevation one line when <500 or >1500 and none in between.
C13_FirstMatchingBandOnly ==
    Recommended =>
        /\ LinesAmong(analysis.recommendations, DistanceTexts) =
               <<IF Under(WindowKm, analysis.weeks, 20) THEN "increase gradually"
                 ELSE IF Under(WindowKm, analysis.weeks, 40) THEN "add speed work"
                 ELSE "ensure recovery">>
        /\ LinesAmong(analysis.recommendations, RunsTexts) =
               <<IF Under(WindowRuns, analysis.weeks, 3) THEN "aim for 3-4 runs"
                 ELSE IF Under(WindowRuns, analysis.weeks, 5) THEN "maintain frequency"
                 ELSE "cross-training or rest">>
        /\ LinesAmong(analysis.recommendations, ElevationTexts) =
               IF Under(WindowElevation, analysis.weeks, 500) THEN <<"add hill work">>
               ELSE IF Over(WindowElevation, analysis.weeks, 1500) THEN <<"good hill training">>
               ELSE <<>>
        /\ LinesAmong(analysis.recommendations, PaceTexts) =
               <<IF DeviationUnderHalf(WindowPaces) THEN "add pace variety"
                 ELSE "good pace variety">>
        /\ \A i \in 1..Len(analysis.recommendations) :
               analysis.recommendations[i]
                   \in DistanceTexts \cup RunsTexts \cup ElevationTexts \cup PaceTexts

\* a window of five runs climbing 500 m in the week: no elevation line, three lines
\* in all, each of the last band of its category but the pace line
C13_Witness ==
    /\ Recommended
    /\ Exactly(WindowElevation, analysis.weeks, 500)
    /\ analysis.recommendations =
           <<"ensure recovery", "cross-training or rest", "add pace variety">>

\* --------------------------------------------------------------------- C14
\* the mean of the gaps the consistency rule is given
GapsMean == MeanOfValues(analysis.day_gaps)

\* C14 as stated: for every recommendation and consistency rule an input exactly
\* equal to a threshold (weekly distance 20 or 40 km, run count 3 or 5, pace
\* deviation 0.5, mean gap 2 or 4 days) is assigned to the lower band.
C14_BoundaryInLowerBand ==
    Recommended =>
        /\ Exactly(WindowKm, analysis.weeks, 20) =>
               Printed(analysis.recommendations, "increase gradually")
        /\ Exactly(WindowKm, analysis.weeks, 40) =>
               Printed(analysis.recommendations, "add speed work")
        /\ Exactly(WindowRuns, analysis.weeks, 3) =>
               Printed(analysis.recommendations, "aim for 3-4 runs")
        /\ Exactly(WindowRuns, analysis.weeks, 5) =>
               Printed(analysis.recommendations, "maintain frequency")
        /\ DeviationIsHalf(WindowPaces) => Printed(analysis.recommendations, "add pace variety")
        /\ GapsMean = FInt(2) => analysis.consistency = "excellent"
        /\ GapsMean = FInt(4) => analysis.consistency = "good"

\* C14 amended: an input exactly equal to a threshold is assigned to the lower band
\* by the consistency rule only (mean gap 2 or 4 days); by the recommendation rules
\* it is assigned to the upper band, the band listed after the threshold (weekly
\* distance 20 or 40 km, run count 3 or 5, pace deviation 0.5).
C14_BoundaryBands ==
    Recommended =>
        /\ Exactly(WindowKm, analysis.weeks, 20) =>
               Printed(analysis.recommendations, "add speed work")
        /\ Exactly(WindowKm, analysis.weeks, 40) =>
               Printed(analysis.recommendations, "ensure recovery")
        /\ Exactly(WindowRuns, analysis.weeks, 3) =>
               Printed(analysis.recommendations, "maintain frequency")
        /\ Exactly(WindowRuns, analysis.weeks, 5) =>
               Printed(analysis.recommendations, "cross-training or rest")
        /\ DeviationIsHalf(WindowPaces) => Printed(analysis.recommendations, "good pace variety")
        /\ GapsMean = FInt(2) => analysis.consistency = "excellent"
        /\ GapsMean = FInt(4) => analysis.consistency = "good"

\* three runs of 5:00 and one of 6:00 four days later: 40 km in the week, a pace
\* deviation of exactly 0.5
C14_Witness ==
    /\ Recommended
    /\ Exactly(WindowKm, analysis.weeks, 40)
    /\ DeviationIsHalf(WindowPaces)
    /\ Printed(analysis.recommendations, "ensure recovery")
    /\ Printed(analysis.recommendations, "good pace variety")

\* --------------------------------------------------------------------- C15
\* the hours from the first start of the window to the last: the sum of the gaps
\* between date-consecutive runs
SpanHours ==
    LET ts == {analysis.recent_runs[i].start_date.t : i \in 1..Len(analysis.recent_runs)}
    IN (CHOOSE t \in ts : \A u \in ts : u <= t) - (CHOOSE t \in ts : \A u \in ts : t <= u)

\* the mean gap in days is at most bound
MeanGapAtMost(bound) ==
    SpanHours <= bound * HoursPerDay * (Len(analysis.recent_runs) - 1)

\* C15: for every window of at least two runs the consistency verdict follows the
\* mean of the gaps in days between date-consecutive runs, fractions of a day
\* included: 'excellent' iff mean <= 2, 'good' iff 2 < mean <= 4, 'run more
\* frequently' otherwise.
C15_VerdictFollowsFractionalMeanGap ==
    (Recommended /\ Len(analysis.recent_runs) >= 2) =>
        analysis.consistency = IF MeanGapAtMost(2) THEN "excellent"
                               ELSE IF MeanGapAtMost(4) THEN "good"
                               ELSE "more frequently"

\* --------------------------------------------------------------------- C16
\* the whole minutes of a pace that is a number and not negative
WholeMinutes(p) == p.n \div p.d

\* the whole seconds of what is left of the minute, never rounded up
WholeSeconds(p) == ((p.n % p.d) * SecondsPerMin) \div p.d

\* the text is what the formatting rule gives for the pace
FormattedAs(p, text) ==
    /\ IsNaN(p) => text = NAText
    /\ (IsNum(p) /\ p.n >= 0) =>
           /\ text = PaceText(WholeMinutes(p), WholeSeconds(p))
           /\ text.seconds \in 0..(SecondsPerMin - 1)

AnalysisStep == pc = "loaded" /\ pc' \in {"analyzed", "completed"}

\* the frame holds none of the columns the analysis adds, in its columns or its rows
Unlabelled(frame) ==
    /\ AnalysisCols \cap frame.cols = {}
    /\ \A i \in 1..Len(frame.rows) : frame.rows[i].week_label = NoLabel

\* C17: analyze_recent_running_insights leaves the caller's Enriched Dataset as it
\* was; the columns it adds (elevation_gain_m, week_number, week_label) exist only
\* on the window it returns.
C17_CallerDatasetIsUnchanged ==
    [][AnalysisStep =>
          /\ df' = df
          /\ activities_df' = activities_df
          /\ Unlabelled(df')
          /\ Unlabelled(activities_df')
          /\ analysis'.reached = "done" =>
                 /\ AnalysisCols \subseteq analysis'.value.cols
                 /\ \A i \in 1..Len(analysis'.value.rows) :
                        analysis'.value.rows[i].week_label # NoLabel]_vars

\* a window was returned with the columns on it, from a dataset that has rows
C17_Witness ==
    /\ pc = "analyzed"
    /\ analysis.reached = "done"
    /\ analysis.value.rows # <<>>
    /\ AnalysisCols \subseteq analysis.value.cols
    /\ analysis.value.rows[1].week_label # NoLabel
    /\ ~df.isnone
    /\ df.rows # <<>>
    /\ Unlabelled(df)

\* --------------------------------------------------------------------- C18
\* load_activities ended, having sent requests
LoadEnded == pc \in {"loaded", "legacy"} /\ requested # <<>>

\* the loader that ran collected the details
DetailedLoad == pc = "loaded" /\ load_args.detailed

\* the page requests sent, in the order sent
PagesAsked == SelectSeq(requested, LAMBDA r : r.kind = "page")

\* the service answers the page with a list that is not empty
GoodPage(i) == i <= Len(remote) /\ remote[i].ok /\ remote[i].items # <<>>

\* the first page of 1..pages that answers an empty list or an error, or pages
LastPage ==
    IF \E i \in 1..load_args.pages : ~GoodPage(i)
    THEN CHOOSE i \in 1..load_args.pages :
             ~GoodPage(i) /\ \A j \in 1..(i - 1) : GoodPage(j)
    ELSE load_args.pages

\* the activities the page lists
ItemsOf(i) == IF GoodPage(i) THEN remote[i].items ELSE <<>>

RECURSIVE SummariesUpTo(_)
\* the summaries of the pages 1..k, in page order
SummariesUpTo(k) ==
    IF k = 0 THEN <<>>
    ELSE SummariesUpTo(k - 1) \o [i \in 1..Len(ItemsOf(k)) |-> ItemsOf(k)[i].summary]

\* a page requested lists an activity without id: the detail loop raises KeyError
IdlessListed ==
    \E k \in 1..Len(PagesAsked) : \E i \in 1..Len(ItemsOf(k)) : ~ItemsOf(k)[i].summary.id.has

\* C18: load_activities requests the pages 1..pages in increasing order and stops at
\* the first page that answers an empty list or an error: no later page is ever
\* requested, and the activities of the pages already fetched are kept in the
\* loaded dataset.
C18_PagingStopsAtFirstEmptyPage ==
    LoadEnded =>
        /\ \A i \in 1..Len(PagesAsked) : PagesAsked[i].n = i
        /\ Len(PagesAsked) <= LastPage
        /\ ~(DetailedLoad /\ IdlessListed) => Len(PagesAsked) = LastPage
        /\ ~DetailedLoad => all_activities = SummariesUpTo(Len(PagesAsked))
        /\ (pc = "loaded" /\ raised = "none") =>
               Len(activities_df.rows) = Len(all_activities)

\* page 2 of three ended the load: page 3 lists activities and was never requested,
\* the activities of page 1 are in the frame
C18_Witness ==
    /\ pc = "loaded"
    /\ raised = "none"
    /\ load_args.pages = 3
    /\ PagesAsked = <<PageRequest(1), PageRequest(2)>>
    /\ ~GoodPage(2)
    /\ GoodPage(3)
    /\ all_activities # <<>>
    /\ Len(activities_df.rows) = Len(all_activities)

\* --------------------------------------------------------------------- C19
\* the detail requests sent, in the order sent
DetailsAsked == SelectSeq(requested, LAMBDA r : r.kind = "detail")

RECURSIVE ItemsUpTo(_)
\* the activities the pages 1..k list, in page order
ItemsUpTo(k) == IF k = 0 THEN <<>> ELSE ItemsUpTo(k - 1) \o ItemsOf(k)

\* the activities whose detail request answers
Succeeded(items) == SelectSeq(items, LAMBDA item : ~item.detail.none)

\* C19: with detailed=True, after load_activities the loaded set holds exactly the
\* detail records of the listed activities whose detail fetch succeeded, in fetch
\* order; a failed detail fetch drops only that activity, the rest of its page and
\* the following pages are still fetched.
C19_FailedDetailDropsOnlyThatActivity ==
    (LoadEnded /\ DetailedLoad /\ ~IdlessListed) =>
        /\ all_activities =
               [i \in 1..Len(Succeeded(ItemsUpTo(LastPage))) |->
                   Succeeded(ItemsUpTo(LastPage))[i].detail.v]
        /\ DetailsAsked =
               [i \in 1..Len(ItemsUpTo(LastPage)) |->
                   DetailRequest(ItemsUpTo(LastPage)[i].summary.id.v)]
        /\ Len(PagesAsked) = LastPage
        /\ raised = "none"
        /\ Len(activities_df.rows) = Len(all_activities)

\* the detail of activity 2 failed; activity 3 of the same page and the page after
\* were fetched all the same, and the loaded set holds activities 1 and 3 only
C19_Witness ==
    /\ LoadEnded
    /\ DetailedLoad
    /\ raised = "none"
    /\ \E i, j, k \in 1..Len(requested) :
           /\ i < j /\ j < k
           /\ requested[i] = DetailRequest(2)
           /\ requested[j] = DetailRequest(3)
           /\ requested[k] = PageRequest(2)
    /\ Len(all_activities) = 2
    /\ all_activities[2].id = Some(3)
    /\ Len(activities_df.rows) = 2

====
